---- MODULE Spec2Model ----
(***************************************************************************)
(* Rolistik API: token service (app/core/security.py), registration        *)
(* routes (app/api/v1/endpoints/users.py, app/routes/user_routes.py),      *)
(* request authentication guards (app/api/dependencies.py) and the user    *)
(* repository (app/repositories/base.py, app/repositories/user.py).        *)
(*                                                                         *)
(* Python dicts and documents are functions from key names to values: a    *)
(* key that is absent from the dict is absent from the DOMAIN.  Time is    *)
(* counted in whole minutes.                                               *)
(***************************************************************************)
EXTENDS Integers, FiniteSets, Sequences, TLC

\* ------------------------------------------------------------------ bounds
MaxTime == 3        \* the clock runs over 0..MaxTime
MaxTtl == 2         \* caller-supplied expires_delta ranges over 0..MaxTtl
MaxUsers == 2       \* ids the store assigns: 1..MaxUsers
MaxReqs == 2        \* registration requests in flight
MaxLen == 3         \* free characters of a password put to the strength score
max_requests == 2   \* the rate limiter's max_requests
window_minutes == 2 \* the rate limiter's window_minutes
MaxChecks == 4      \* admitted checks of one key that are followed

\* ------------------------------------------------------- program constants
ACCESS_TOKEN_EXPIRE_MINUTES == 30
REFRESH_TOKEN_EXPIRE_MINUTES == 10080

HTTP_400 == 400
HTTP_401 == 401
HTTP_403 == 403
HTTP_201 == 201
HTTP_429 == 429

MIN_LENGTH == 8     \* len(password) >= 8
IDEAL_LENGTH == 12  \* len(password) >= 12
STRONG_SCORE == 4   \* "is_strong": score >= 4
MAX_SCORE == 6      \* "max_score": 6

VARIABLES
    now,        \* wall clock, minutes
    users,      \* the Beanie "users" collection: id -> document
    nextId,     \* next id the store assigns in users
    user_collection, \* the pymongo users collection of user_routes.py
    tokCall,    \* the last call made to the token service, with its result
    reg,        \* registration requests: request -> position, input, outcome
    guard,      \* the guard (dependency) evaluation of the current request
    upd,        \* a BaseRepository.update call in progress
    stats,      \* a UserRepository.get_user_stats call in progress
    call,       \* another UserRepository or UserService call in progress
    rate_limit_cache, \* dependencies.rate_limit_cache: key -> request times
    rl          \* rate_limit checks: th: thread -> position of its check;
                \* admitted: key -> times of the checks let through;
                \* rejected: key -> time of the last check answered 429

vars == <<now, users, nextId, user_collection, tokCall, reg, guard, upd, stats,
          call, rate_limit_cache, rl>>

Times == 0..MaxTime
Ids == 1..MaxUsers

\* dict.get(k) is not None
HasKey(d, k) == k \in DOMAIN d

\* no call made yet; no request, call or evaluation in progress
NoCall == [op |-> "none"]
Idle == [pc |-> "idle"]

\* ======================================================== Token service ==
\* The secret the process signs with, and any other key
Keys == {"SECRET_KEY", "other"}

\* Claim sets a bearer can present: sub, exp and type are each optional
SubClaims == {[sub |-> s] : s \in 1..(MaxUsers + 1)} \cup {<<>>}
ExpClaims == {[exp |-> e] : e \in Times} \cup {<<>>}
TypeClaims == {[type |-> ty] : ty \in {"access", "refresh"}} \cup {<<>>}
Payloads == {s @@ e @@ ty : s \in SubClaims, e \in ExpClaims, ty \in TypeClaims}
Tokens == {[key |-> k, payload |-> p] : k \in Keys, p \in Payloads}

\* data dicts handed to the create_*_token functions
TokenData == {s @@ ty : s \in SubClaims, ty \in TypeClaims}

\* jose.jwt.encode(claims, key): the claim set, signed with key
JwtEncode(claims, key) == [key |-> key, payload |-> claims]

\* jose.jwt.decode(token, key): JWTError when the signature does not verify
\* under key or when exp < now; else the claim set
JwtDecode(token, key, t) ==
    IF token.key # key THEN [kind |-> "JWTError"]
    ELSE IF HasKey(token.payload, "exp") /\ token.payload.exp < t
         THEN [kind |-> "JWTError"]
         ELSE [kind |-> "ok", payload |-> token.payload]

\* datetime.now(tz): tz must be None or a tzinfo instance, anything else
\* raises TypeError
DatetimeNow(tz, t) ==
    IF tz \in {"None", "tzinfo"} THEN [ok |-> TRUE, value |-> t]
    ELSE [ok |-> FALSE, error |-> "TypeError"]

HTTPException(st, detail) == [kind |-> "HTTPException", status |-> st, detail |-> detail]

\* create_access_token(data, expires_delta); expires_delta = 0 is falsy
create_access_token(data, expires_delta, t) ==
    LET n == DatetimeNow("datetime.timestamp", t)
    IN  IF ~n.ok THEN [kind |-> "raise", error |-> n.error]
        ELSE LET expire == IF expires_delta # 0 THEN n.value + expires_delta
                           ELSE n.value + ACCESS_TOKEN_EXPIRE_MINUTES
             IN  [kind |-> "token",
                  token |-> JwtEncode([exp |-> expire] @@ data, "SECRET_KEY")]

\* create_refresh_token(data, expires_delta)
create_refresh_token(data, expires_delta, t) ==
    LET n == DatetimeNow("datetime.timestamp", t)
    IN  IF ~n.ok THEN [kind |-> "raise", error |-> n.error]
        ELSE LET expire == IF expires_delta # 0 THEN n.value + expires_delta
                           ELSE n.value + REFRESH_TOKEN_EXPIRE_MINUTES
             IN  [kind |-> "token",
                  token |-> JwtEncode([exp |-> expire, type |-> "refresh"] @@ data,
                                      "SECRET_KEY")]

\* decode_token(token)
decode_token(token, t) ==
    LET d == JwtDecode(token, "SECRET_KEY", t)
    IN  IF d.kind = "JWTError" THEN HTTPException(HTTP_401, "Token invalide")
        ELSE [kind |-> "ok", payload |-> d.payload]

\* get_user_id_from_token(token)
get_user_id_from_token(token, t) ==
    LET d == decode_token(token, t)
    IN  IF d.kind # "ok" THEN d
        ELSE IF ~HasKey(d.payload, "sub")
             THEN HTTPException(HTTP_401, "Token invalide: pas d'identifiant utilisateur")
             ELSE [kind |-> "ok", user_id |-> d.payload.sub]

\* validate_token_type(token, expected_type)
validate_token_type(token, expected_type, t) ==
    LET d == decode_token(token, t)
    IN  IF d.kind # "ok" THEN d
        ELSE LET token_type == IF HasKey(d.payload, "type") THEN d.payload.type
                               ELSE "access"
             IN  IF token_type # expected_type
                 THEN HTTPException(HTTP_401, "Type de token invalide")
                 ELSE [kind |-> "ok", payload |-> d.payload]

\* ------------------------------------------------ token service: actions
Tick ==
    /\ now < MaxTime
    /\ now' = now + 1
    /\ UNCHANGED <<users, nextId, user_collection, tokCall, reg, guard, upd, stats, call, rate_limit_cache, rl>>

CreateAccessToken ==
    \E data \in TokenData, ttl \in 0..MaxTtl :
        /\ tokCall' = [op |-> "create_access_token", data |-> data, ttl |-> ttl,
                       at |-> now, result |-> create_access_token(data, ttl, now)]
        /\ UNCHANGED <<now, users, nextId, user_collection, reg, guard, upd, stats, call, rate_limit_cache, rl>>

CreateRefreshToken ==
    \E data \in TokenData, ttl \in 0..MaxTtl :
        /\ tokCall' = [op |-> "create_refresh_token", data |-> data, ttl |-> ttl,
                       at |-> now, result |-> create_refresh_token(data, ttl, now)]
        /\ UNCHANGED <<now, users, nextId, user_collection, reg, guard, upd, stats, call, rate_limit_cache, rl>>

DecodeToken ==
    \E tok \in Tokens :
        /\ tokCall' = [op |-> "decode_token", token |-> tok, at |-> now,
                       result |-> decode_token(tok, now)]
        /\ UNCHANGED <<now, users, nextId, user_collection, reg, guard, upd, stats, call, rate_limit_cache, rl>>

GetUserIdFromToken ==
    \E tok \in Tokens :
        /\ tokCall' = [op |-> "get_user_id_from_token", token |-> tok, at |-> now,
                       result |-> get_user_id_from_token(tok, now)]
        /\ UNCHANGED <<now, users, nextId, user_collection, reg, guard, upd, stats, call, rate_limit_cache, rl>>

ValidateTokenType ==
    \E tok \in Tokens, expected \in {"access", "refresh"} :
        /\ tokCall' = [op |-> "validate_token_type", token |-> tok,
                       expected |-> expected, at |-> now,
                       result |-> validate_token_type(tok, expected, now)]
        /\ UNCHANGED <<now, users, nextId, user_collection, reg, guard, upd, stats, call, rate_limit_cache, rl>>

\* ======================================================== Credentials ==
Emails == {"a@x.com", "b@x.com"}
Usernames == {"alice", "bob"}
Passwords == {"password1"}
None == "None"

\* get_password_hash(password): the bcrypt hash of password
get_password_hash(password) == [alg |-> "bcrypt", of |-> password]

\* verify_password(plain_password, hashed_password)
verify_password(plain_password, hashed_password) ==
    hashed_password = [alg |-> "bcrypt", of |-> plain_password]

\* ==================================================== Documents and store ==
\* User(**fields) of app/models/users.py: email, username and hashed_password
\* are required, the other fields have defaults, unknown keys are ignored
UserRequired == {"email", "username", "hashed_password"}
UserDefaults == [full_name |-> None, is_active |-> TRUE, is_gamemaster |-> FALSE,
                 is_superuser |-> FALSE, last_login |-> <<>>]
UserFields == UserRequired \cup DOMAIN UserDefaults

User(fields) ==
    IF ~(UserRequired \subseteq DOMAIN fields)
    THEN [kind |-> "raise", error |-> "ValidationError"]
    ELSE [kind |-> "ok",
          obj |-> [k \in UserFields |->
                      IF k \in DOMAIN fields THEN fields[k] ELSE UserDefaults[k]]]

\* UserCreate payloads (app/schemas/user.py)
UserCreateInputs ==
    [email : Emails, username : Usernames, full_name : {None}, password : Passwords]

\* objects handed to BaseRepository.create: a UserCreate, or a schema that
\* carries the fields of the document
RegistrationDocs ==
    [email : Emails, username : Usernames,
     hashed_password : {get_password_hash(p) : p \in Passwords}]

\* User.find_one(User.<field> == value): the first matching document or None
Matching(coll, field, value) == {i \in DOMAIN coll : coll[i][field] = value}

find_one(coll, field, value) ==
    LET m == Matching(coll, field, value)
    IN  IF m = {} THEN [found |-> FALSE]
        ELSE [found |-> TRUE, id |-> CHOOSE i \in m : \A j \in m : i <= j]

\* get_by_email querying the username field
get_by_email_wrong_field(email) == find_one(users, "username", email)

\* UserRepository.get_by_email(email)
get_by_email(email) == find_one(users, "email", email)

\* BaseRepository.create(obj_in): obj = self.model(**obj_in.dict()); obj.insert()
RepoCreate(obj_in) ==
    LET obj == User(obj_in)
    IN  /\ nextId <= MaxUsers
        /\ IF obj.kind = "ok"
           THEN /\ users' = (nextId :> obj.obj) @@ users
                /\ nextId' = nextId + 1
           ELSE UNCHANGED <<users, nextId>>
        /\ UNCHANGED <<now, user_collection, tokCall, reg, guard, upd, stats, call, rate_limit_cache, rl>>

\* ========================================================= Registration ==
\* Methods that UserRepository defines or inherits from BaseRepository
UserRepositoryMethods ==
    {"create", "get", "update", "delete", "list",
     "get_by_email", "get_by_username", "get_by_email_or_username",
     "get_active_users", "get_inactive_users", "get_superusers", "search_users",
     "count_active_users", "count_total_users", "count_new_users_today",
     "activate_user", "deactivate_user", "update_password", "update_last_login",
     "email_exists", "username_exists", "email_exists_exclude_user",
     "get_users_by_ids", "bulk_activate_users", "bulk_deactivate_users",
     "get_users_with_filters", "get_user_stats"}

\* UserService.create_user(user_in): hashes the password, then calls
\* self.repository.create_user(user_data)
UserService_create_user(user_in) ==
    LET user_data == [k \in (DOMAIN user_in \ {"password"}) \cup {"hashed_password"} |->
                         IF k = "hashed_password"
                         THEN get_password_hash(user_in.password) ELSE user_in[k]]
    IN  IF "create_user" \notin UserRepositoryMethods
        THEN [kind |-> "raise", error |-> "AttributeError"]
        ELSE User(user_data)

\* what is remembered of a request once it is answered: the route taken, and
\* whether its email was stored when it arrived, whether it was well formed
\* and whether it wrote to the collection
Ghost(req) ==
    [k \in {"variant", "well_formed", "email_was_stored", "wrote"} |-> req[k]]

\* POST /users/ (app/api/v1/endpoints/users.py): the pre-check by email
EndpointCreateUserPrecheck(r) ==
    \E user_in \in UserCreateInputs :
        LET existing_user == get_by_email(user_in.email)
            req == [variant |-> "endpoint", well_formed |-> TRUE,
                    email_was_stored |->
                        \E i \in DOMAIN users : users[i].email = user_in.email,
                    wrote |-> FALSE]
        IN  /\ reg[r].pc = "idle"
            /\ reg' = [reg EXCEPT ![r] =
                 IF existing_user.found
                 THEN [pc |-> "done",
                       outcome |-> HTTPException(HTTP_400, "Email already registered")] @@ req
                 ELSE [pc |-> "create", input |-> user_in] @@ req]
            /\ UNCHANGED <<now, users, nextId, user_collection, tokCall, guard, upd, stats, call, rate_limit_cache, rl>>

\* POST /users/: return await user_service.create_user(user_in)
EndpointCreateUserCreate(r) ==
    LET res == UserService_create_user(reg[r].input)
    IN  /\ reg[r].pc = "create"
        /\ reg[r].variant = "endpoint"
        /\ IF res.kind = "ok"
           THEN /\ nextId <= MaxUsers
                /\ users' = (nextId :> res.obj) @@ users
                /\ nextId' = nextId + 1
                /\ reg' = [reg EXCEPT ![r] =
                     [pc |-> "done", wrote |-> TRUE,
                      outcome |-> [kind |-> "response", status |-> HTTP_201]]
                     @@ Ghost(reg[r])]
           ELSE /\ UNCHANGED <<users, nextId>>
                /\ reg' = [reg EXCEPT ![r] =
                     [pc |-> "done", outcome |-> res] @@ Ghost(reg[r])]
        /\ UNCHANGED <<now, user_collection, tokCall, guard, upd, stats, call, rate_limit_cache, rl>>

\* user dicts posted to /create/ (app/routes/user_routes.py): a key whose
\* value is None is absent
RouteInputs ==
    {u @@ p @@ e : u \in {[username |-> n] : n \in Usernames} \cup {<<>>},
                   p \in {[password |-> w] : w \in Passwords} \cup {<<>>},
                   e \in {[email |-> m] : m \in Emails} \cup {<<>>}}

JSONResponse(message, st) == [kind |-> "JSONResponse", status |-> st, message |-> message]

\* user_collection.find_one({field: value})
collection_find_one(field, value) ==
    \E i \in DOMAIN user_collection : user_collection[i][field] = value

\* POST /create/: required fields, then the username pre-check
RoutesCreateUserCheckUsername(r) ==
    \E user_dict \in RouteInputs :
        LET req == [variant |-> "routes", wrote |-> FALSE,
                    well_formed |->
                        {"username", "password", "email"} \subseteq DOMAIN user_dict,
                    email_was_stored |->
                        /\ HasKey(user_dict, "email")
                        /\ user_dict.email \in
                             {user_collection[i].email : i \in DOMAIN user_collection}]
        IN  /\ reg[r].pc = "idle"
            /\ reg' = [reg EXCEPT ![r] =
                 IF ~({"username", "password", "email"} \subseteq DOMAIN user_dict)
                 THEN [pc |-> "done",
                       outcome |-> JSONResponse("Username, password, and email are required",
                                                HTTP_400)] @@ req
                 ELSE IF collection_find_one("username", user_dict.username)
                      THEN [pc |-> "done",
                            outcome |-> JSONResponse("Username already exists", HTTP_400)] @@ req
                      ELSE [pc |-> "check_email", input |-> user_dict] @@ req]
            /\ UNCHANGED <<now, users, nextId, user_collection, tokCall, guard, upd, stats, call, rate_limit_cache, rl>>

\* POST /create/: the email pre-check
RoutesCreateUserCheckEmail(r) ==
    /\ reg[r].pc = "check_email"
    /\ reg' = [reg EXCEPT ![r] =
         IF collection_find_one("email", reg[r].input.email)
         THEN [pc |-> "done",
               outcome |-> JSONResponse("Email already exists", HTTP_400)] @@ Ghost(reg[r])
         ELSE [pc |-> "insert"] @@ reg[r]]
    /\ UNCHANGED <<now, users, nextId, user_collection, tokCall, guard, upd, stats, call, rate_limit_cache, rl>>

\* POST /create/: user_collection.insert_one(user_dict)
RoutesCreateUserInsert(r) ==
    /\ reg[r].pc = "insert"
    /\ Len(user_collection) < MaxUsers
    /\ user_collection' = Append(user_collection, reg[r].input)
    /\ reg' = [reg EXCEPT ![r] =
         [pc |-> "done", wrote |-> TRUE,
          outcome |-> JSONResponse("User created", HTTP_201)] @@ Ghost(reg[r])]
    /\ UNCHANGED <<now, users, nextId, tokCall, guard, upd, stats, call, rate_limit_cache, rl>>

\* the response is sent, the worker takes the next request
Respond(r) ==
    /\ reg[r].pc = "done"
    /\ reg' = [reg EXCEPT ![r] = Idle]
    /\ UNCHANGED <<now, users, nextId, user_collection, tokCall, guard, upd, stats, call, rate_limit_cache, rl>>

\* ============================================== Request authentication ==
\* documents of users whose flags matter to the guards
GuardDocs ==
    [email : {"a@x.com"}, username : {"alice"},
     hashed_password : {get_password_hash(p) : p \in Passwords},
     is_active : BOOLEAN, is_superuser : BOOLEAN]

\* tokens presented to the guards: signed with the secret, with or without
\* sub, type and an expiry at minute 1, and one token signed with another key
GuardTokens ==
    {tok \in Tokens :
        /\ HasKey(tok.payload, "exp") => tok.payload.exp = 1
        /\ tok.key = "other" => tok.payload = [sub |-> 1]}

\* permission names handed to require_permissions
Permissions == {"read", "write"}

\* BaseRepository.get(id): the User object of the document, None when there
\* is none; the store call raises when the store cannot be reached
get(id, store_ok) ==
    IF ~store_ok THEN [kind |-> "raise", error |-> "StoreError"]
    ELSE IF id \in DOMAIN users
         THEN [kind |-> "ok", found |-> TRUE, user |-> [id |-> id] @@ users[id]]
         ELSE [kind |-> "ok", found |-> FALSE]

\* get_current_user_token that also requires the type claim to be "access"
get_current_user_token_access_only(token, t) ==
    LET d == JwtDecode(token, "SECRET_KEY", t)
    IN  IF d.kind = "JWTError" THEN HTTPException(HTTP_401, "Token invalide")
        ELSE IF ~HasKey(d.payload, "sub") THEN HTTPException(HTTP_401, "Token invalide")
        ELSE IF ~HasKey(d.payload, "type") \/ d.payload.type # "access"
             THEN HTTPException(HTTP_401, "Token invalide")
             ELSE [kind |-> "ok", token |-> token]

\* get_current_user_token(credentials)
get_current_user_token(token, t) ==
    LET d == JwtDecode(token, "SECRET_KEY", t)
    IN  IF d.kind = "JWTError" THEN HTTPException(HTTP_401, "Token invalide")
        ELSE IF ~HasKey(d.payload, "sub") THEN HTTPException(HTTP_401, "Token invalide")
             ELSE [kind |-> "ok", token |-> token]

\* get_current_user without the is_active test
get_current_user_no_active_test(token, t, store_ok) ==
    LET d == JwtDecode(token, "SECRET_KEY", t)
    IN  IF d.kind = "JWTError" THEN HTTPException(HTTP_401, "Token invalide")
        ELSE IF ~HasKey(d.payload, "sub") THEN HTTPException(HTTP_401, "Token invalide")
        ELSE LET user == get(d.payload.sub, store_ok)
             IN  IF user.kind = "raise" THEN user
                 ELSE IF ~user.found
                      THEN HTTPException(HTTP_401, "Utilisateur non trouve")
                 ELSE [kind |-> "user", user |-> user.user]

\* get_current_user(token)
get_current_user(token, t, store_ok) ==
    LET d == JwtDecode(token, "SECRET_KEY", t)
    IN  IF d.kind = "JWTError" THEN HTTPException(HTTP_401, "Token invalide")
        ELSE IF ~HasKey(d.payload, "sub") THEN HTTPException(HTTP_401, "Token invalide")
        ELSE LET user == get(d.payload.sub, store_ok)
             IN  IF user.kind = "raise" THEN user
                 ELSE IF ~user.found
                      THEN HTTPException(HTTP_401, "Utilisateur non trouve")
                 ELSE IF ~user.user.is_active
                      THEN HTTPException(HTTP_401, "Utilisateur inactif")
                 ELSE [kind |-> "user", user |-> user.user]

\* get_current_superuser without the is_superuser test
get_current_superuser_no_test(current_user) == [kind |-> "user", user |-> current_user]

\* get_current_superuser(current_user)
get_current_superuser(current_user) ==
    IF ~current_user.is_superuser
    THEN HTTPException(HTTP_403, "Permissions insuffisantes")
    ELSE [kind |-> "user", user |-> current_user]

\* check_permissions without the superuser exemption
check_permissions_no_exemption(permissions, current_user) ==
    IF permissions # {}
    THEN LET user_permissions == IF HasKey(current_user, "permissions")
                                 THEN current_user.permissions ELSE {}
         IN  IF ~(\A perm \in permissions : perm \in user_permissions)
             THEN HTTPException(HTTP_403, "Permissions insuffisantes")
             ELSE [kind |-> "user", user |-> current_user]
    ELSE [kind |-> "user", user |-> current_user]

\* require_permissions(*permissions) . check_permissions(current_user)
check_permissions(permissions, current_user) ==
    IF ~current_user.is_superuser /\ permissions # {}
    THEN LET user_permissions == IF HasKey(current_user, "permissions")
                                 THEN current_user.permissions ELSE {}
         IN  IF ~(\A perm \in permissions : perm \in user_permissions)
             THEN HTTPException(HTTP_403, "Permissions insuffisantes")
             ELSE [kind |-> "user", user |-> current_user]
    ELSE [kind |-> "user", user |-> current_user]

\* get_current_user_optional(credentials)
get_current_user_optional(credentials, t, store_ok) ==
    IF ~credentials.present THEN [kind |-> "none"]
    ELSE LET d == JwtDecode(credentials.token, "SECRET_KEY", t)
         IN  IF d.kind = "JWTError" THEN [kind |-> "none"]
             ELSE IF ~HasKey(d.payload, "sub") THEN [kind |-> "none"]
             ELSE LET user == get(d.payload.sub, store_ok)
                  IN  IF user.kind = "raise" THEN user
                      ELSE IF user.found /\ user.user.is_active
                           THEN [kind |-> "user", user |-> user.user]
                           ELSE [kind |-> "none"]

\* the dependency chains of the protected routes
MandatoryVariants == {"get_current_user", "get_current_superuser", "require_permissions"}

Finished(g, outcome) == [pc |-> "done", outcome |-> outcome] @@ g

\* a request with bearer credentials reaches a protected route: the first
\* dependency, get_current_user_token, runs
GuardToken ==
    \E variant \in MandatoryVariants, tok \in GuardTokens, required \in SUBSET Permissions :
        LET res == get_current_user_token(tok, now)
            g == [variant |-> variant, credentials |-> [present |-> TRUE, token |-> tok],
                  required |-> required, store_ok |-> TRUE]
        IN  /\ guard.pc = "idle"
            /\ variant # "require_permissions" => required = {}
            /\ guard' = IF res.kind = "ok" THEN [pc |-> "user"] @@ g
                        ELSE Finished(g, res)
            /\ UNCHANGED <<now, users, nextId, user_collection, tokCall, reg, upd, stats, call, rate_limit_cache, rl>>

\* the second dependency, get_current_user, runs
GuardUser ==
    \E store_ok \in BOOLEAN :
        LET res == get_current_user(guard.credentials.token, now, store_ok)
            g == [store_ok |-> store_ok] @@ guard
        IN  /\ guard.pc = "user"
            /\ guard' = IF res.kind # "user" \/ guard.variant = "get_current_user"
                        THEN Finished(g, res)
                        ELSE [pc |-> "authorize", current_user |-> res.user] @@ g
            /\ UNCHANGED <<now, users, nextId, user_collection, tokCall, reg, upd, stats, call, rate_limit_cache, rl>>

\* the last dependency, get_current_superuser or check_permissions, runs
GuardAuthorize ==
    /\ guard.pc = "authorize"
    /\ guard' = Finished(guard,
                    IF guard.variant = "get_current_superuser"
                    THEN get_current_superuser(guard.current_user)
                    ELSE check_permissions(guard.required, guard.current_user))
    /\ UNCHANGED <<now, users, nextId, user_collection, tokCall, reg, upd, stats, call, rate_limit_cache, rl>>

\* a request, with or without credentials, reaches a route that depends on
\* get_current_user_optional
GuardOptional ==
    \E credentials \in [present : {TRUE}, token : GuardTokens] \cup {[present |-> FALSE]},
       store_ok \in BOOLEAN :
        /\ guard.pc = "idle"
        /\ guard' = Finished([variant |-> "get_current_user_optional",
                              credentials |-> credentials, required |-> {},
                              store_ok |-> store_ok],
                             get_current_user_optional(credentials, now, store_ok))
        /\ UNCHANGED <<now, users, nextId, user_collection, tokCall, reg, upd, stats, call, rate_limit_cache, rl>>

\* the route handler runs, or the error response is sent
GuardReturn ==
    /\ guard.pc = "done"
    /\ guard' = Idle
    /\ UNCHANGED <<now, users, nextId, user_collection, tokCall, reg, upd, stats, call, rate_limit_cache, rl>>

\* ========================================================== Repository ==
\* UserUpdate payloads (app/schemas/user.py) after dict(exclude_unset=True):
\* email and username are required, the optional fields appear when set
UserUpdateInputs ==
    {b @@ f @@ a : b \in [email : {"b@x.com"}, username : {"bob"}],
                   f \in {[full_name |-> "Al"], <<>>},
                   a \in {[is_active |-> v] : v \in BOOLEAN} \cup {<<>>}}

\* the loop over obj_in.dict() without exclude_unset: an unset is_active
\* takes the schema's default
SetAttrs_all_fields(obj, obj_in) ==
    [k \in DOMAIN obj |-> IF k \in DOMAIN obj_in THEN obj_in[k]
                          ELSE IF k = "is_active" THEN TRUE ELSE obj[k]]

\* for field, value in obj_in.dict(exclude_unset=True).items(): setattr(obj, field, value)
SetAttrs(obj, obj_in) ==
    [k \in DOMAIN obj |-> IF k \in DOMAIN obj_in THEN obj_in[k] ELSE obj[k]]

\* obj.save(): the whole document is written under the object's id
Save(coll, obj) ==
    (obj.id :> [k \in DOMAIN obj \ {"id"} |-> obj[k]]) @@ coll

\* BaseRepository.update(id, obj_in): obj = await self.get(id)
RepoUpdateGet ==
    \E id \in 1..(MaxUsers + 1), obj_in \in UserUpdateInputs :
        LET obj == get(id, TRUE)
        IN  /\ upd.pc = "idle"
            /\ upd' = IF ~obj.found
                      THEN [pc |-> "done", id |-> id, obj_in |-> obj_in,
                            result |-> [kind |-> "none"]]
                      ELSE [pc |-> "save", id |-> id, obj_in |-> obj_in,
                            obj |-> SetAttrs(obj.user, obj_in)]
            /\ UNCHANGED <<now, users, nextId, user_collection, tokCall, reg, guard, stats, call, rate_limit_cache, rl>>

\* BaseRepository.update(id, obj_in): await obj.save(); return obj
RepoUpdateSave ==
    /\ upd.pc = "save"
    /\ users' = Save(users, upd.obj)
    /\ upd' = [pc |-> "done", id |-> upd.id, obj_in |-> upd.obj_in,
               result |-> [kind |-> "user", user |-> upd.obj]]
    /\ UNCHANGED <<now, nextId, user_collection, tokCall, reg, guard, stats, call, rate_limit_cache, rl>>

\* the caller has the result
RepoUpdateReturn ==
    /\ upd.pc = "done"
    /\ upd' = Idle
    /\ UNCHANGED <<now, users, nextId, user_collection, tokCall, reg, guard, stats, call, rate_limit_cache, rl>>

\* UserRepository.count_total_users(): User.find_all().count()
count_total_users(coll) == Cardinality(DOMAIN coll)

\* count_active_users without the is_active filter
count_active_users_unfiltered(coll) == Cardinality(DOMAIN coll)

\* UserRepository.count_active_users(): User.find(User.is_active == True).count()
count_active_users(coll) == Cardinality({i \in DOMAIN coll : coll[i].is_active = TRUE})

\* UserRepository.get_superusers(): User.find(User.is_superuser == True).to_list()
get_superusers(coll) == {i \in DOMAIN coll : coll[i].is_superuser = TRUE}

\* active / total * 100, as the fraction num / den
Rate(active, total) == [num |-> active * 100, den |-> total]
ZeroRate == [num |-> 0, den |-> 1]

\* the dict that get_user_stats returns
UserStats(total, active, superusers) ==
    [total_users |-> total,
     active_users |-> active,
     inactive_users |-> total - active,
     superusers |-> superusers,
     activation_rate |-> IF total > 0 THEN Rate(active, total) ELSE ZeroRate]

\* get_user_stats: total = await self.count_total_users()
StatsTotal ==
    /\ stats.pc = "idle"
    /\ stats' = [pc |-> "active", total |-> count_total_users(users),
                 seen |-> users, quiet |-> TRUE]
    /\ UNCHANGED <<now, users, nextId, user_collection, tokCall, reg, guard, upd, call, rate_limit_cache, rl>>

\* get_user_stats: active = await self.count_active_users()
StatsActive ==
    /\ stats.pc = "active"
    /\ stats' = [pc |-> "superusers", total |-> stats.total,
                 active |-> count_active_users(users),
                 seen |-> stats.seen, quiet |-> stats.quiet /\ users = stats.seen]
    /\ UNCHANGED <<now, users, nextId, user_collection, tokCall, reg, guard, upd, call, rate_limit_cache, rl>>

\* get_user_stats: superusers = len(await self.get_superusers()); return {...}
StatsSuperusers ==
    /\ stats.pc = "superusers"
    /\ stats' = [pc |-> "done",
                 quiet |-> stats.quiet /\ users = stats.seen,
                 result |-> UserStats(stats.total, stats.active,
                                      Cardinality(get_superusers(users)))]
    /\ UNCHANGED <<now, users, nextId, user_collection, tokCall, reg, guard, upd, call, rate_limit_cache, rl>>

\* the caller has the statistics
StatsReturn ==
    /\ stats.pc = "done"
    /\ stats' = Idle
    /\ UNCHANGED <<now, users, nextId, user_collection, tokCall, reg, guard, upd, call, rate_limit_cache, rl>>

\* ====================================================== Bulk operations ==
\* The _id of document i is an ObjectId; the repository's signatures take
\* ids as text (user_id: str, user_ids: List[str]), the ObjectId's hex digits
ObjectId(i) == [type |-> "ObjectId", hex |-> i]
Str(i) == [type |-> "str", hex |-> i]

\* user_ids arguments: ids of stored and of unknown users, as the signature
\* declares them (str) or as ObjectIds
IdLists ==
    {{Str(i) : i \in S} : S \in SUBSET (1..(MaxUsers + 1))}
        \cup {{ObjectId(i) : i \in S} : S \in SUBSET (1..(MaxUsers + 1))}

\* User.find(In(User.id, user_ids)): the filter {"_id": {"$in": user_ids}}
\* selects the documents whose _id equals an element of user_ids
In_id(coll, user_ids) == {i \in DOMAIN coll : ObjectId(i) \in user_ids}

\* .update({"$set": {field: value}}) on the selected documents
update_many(coll, matched, field, value) ==
    [i \in DOMAIN coll |->
        IF i \in matched THEN [coll[i] EXCEPT ![field] = value] ELSE coll[i]]

\* result.modified_count: the selected documents that the $set changed
modified_count(coll, matched, field, value) ==
    Cardinality({i \in matched : coll[i][field] # value})

\* UserRepository.bulk_activate_users(user_ids)
BulkActivateUsers ==
    \E user_ids \in IdLists :
        LET matched == In_id(users, user_ids)
        IN  /\ call.pc = "idle"
            /\ users' = update_many(users, matched, "is_active", TRUE)
            /\ call' = [pc |-> "done", op |-> "bulk_activate_users",
                        user_ids |-> user_ids,
                        modified_count |->
                            modified_count(users, matched, "is_active", TRUE)]
            /\ UNCHANGED <<now, nextId, user_collection, tokCall, reg, guard, upd, stats, rate_limit_cache, rl>>

\* UserRepository.bulk_deactivate_users(user_ids)
BulkDeactivateUsers ==
    \E user_ids \in IdLists :
        LET matched == In_id(users, user_ids)
        IN  /\ call.pc = "idle"
            /\ users' = update_many(users, matched, "is_active", FALSE)
            /\ call' = [pc |-> "done", op |-> "bulk_deactivate_users",
                        user_ids |-> user_ids,
                        modified_count |->
                            modified_count(users, matched, "is_active", FALSE)]
            /\ UNCHANGED <<now, nextId, user_collection, tokCall, reg, guard, upd, stats, rate_limit_cache, rl>>

\* the caller has the result of the call
CallReturn ==
    /\ call.pc = "done"
    /\ call' = Idle
    /\ UNCHANGED <<now, users, nextId, user_collection, tokCall, reg, guard, upd, stats, rate_limit_cache, rl>>

\* ======================================================= Authentication ==
\* passwords that users choose and that logins submit
LoginPasswords == Passwords \cup {"password2"}

\* documents of users who log in
AuthDocs ==
    [email : Emails, username : {"alice"},
     hashed_password : {get_password_hash(p) : p \in LoginPasswords}]

\* authenticate_user without the password verification
authenticate_user_no_verify(email, password) ==
    LET user == get_by_email(email)
    IN  IF ~user.found THEN [kind |-> "none"]
        ELSE [kind |-> "user", user |-> [id |-> user.id] @@ users[user.id]]

\* UserService.authenticate_user(email, password)
authenticate_user(email, password) ==
    LET user == get_by_email(email)
    IN  IF ~user.found THEN [kind |-> "none"]
        ELSE IF ~verify_password(password, users[user.id].hashed_password)
             THEN [kind |-> "none"]
             ELSE [kind |-> "user", user |-> [id |-> user.id] @@ users[user.id]]

AuthenticateUser ==
    \E email \in Emails, password \in LoginPasswords :
        /\ call.pc = "idle"
        /\ call' = [pc |-> "done", op |-> "authenticate_user",
                    email |-> email, password |-> password,
                    result |-> authenticate_user(email, password)]
        /\ UNCHANGED <<now, users, nextId, user_collection, tokCall, reg, guard, upd, stats, rate_limit_cache, rl>>

\* ==================================================== Password strength ==
\* a password is the sequence of its characters; the characters that the
\* patterns [a-z], [A-Z], \d and [!@#$%^&*(),.?":{}|<>] match
Lowercase == {"a", "b", "c", "d", "e", "f"}
Uppercase == {"A"}
Digits == {"1", "2"}
Specials == {"!", "@"}
\* one character of each class, and one that no pattern matches
Alphabet == {"a", "A", "1", "!", "-"}

\* re.search(pattern, password)
re_search(class, password) == \E i \in 1..Len(password) : password[i] \in class

\* n copies of the character c
Repeat(c, n) == [i \in 1..n |-> c]

\* passwords put to the score: up to MaxLen free characters, alone or
\* followed by a run that takes the length to the two thresholds and beyond,
\* and the two passwords of the documentation
PasswordInputs ==
    {core \o Repeat(c, n) :
        core \in UNION {[1..k -> Alphabet] : k \in 0..MaxLen},
        c \in Alphabet,
        n \in {0, MIN_LENGTH - 1, IDEAL_LENGTH - 1}}
    \cup {<<"a", "b", "c">>,
          <<"A", "b", "c", "d", "e", "f", "1", "2", "!", "@">>}

strength_levels ==
    [n \in 0..MAX_SCORE |->
        CASE n \in {0, 1} -> "Tres faible"
          [] n = 2 -> "Faible"
          [] n = 3 -> "Moyen"
          [] n = 4 -> "Fort"
          [] n = 5 -> "Tres fort"
          [] n = 6 -> "Excellent"]

\* score += 1 when the test holds
Point(test) == IF test THEN 1 ELSE 0
\* feedback.append(message) when the test fails
Feedback(test, message) == IF test THEN <<>> ELSE <<message>>

\* validate_password_strength without the point for the ideal length
validate_password_strength_no_ideal_length(password) ==
    LET score == Point(Len(password) >= MIN_LENGTH)
                   + Point(re_search(Lowercase, password))
                   + Point(re_search(Uppercase, password))
                   + Point(re_search(Digits, password))
                   + Point(re_search(Specials, password))
    IN  [score |-> score,
         max_score |-> MAX_SCORE,
         strength |-> strength_levels[score],
         is_strong |-> score >= STRONG_SCORE,
         feedback |->
            Feedback(Len(password) >= MIN_LENGTH, "Le mot de passe doit contenir au moins 8 caracteres")
              \o Feedback(re_search(Lowercase, password), "Ajoutez des lettres minuscules")
              \o Feedback(re_search(Uppercase, password), "Ajoutez des lettres majuscules")
              \o Feedback(re_search(Digits, password), "Ajoutez des chiffres")
              \o Feedback(re_search(Specials, password), "Ajoutez des caracteres speciaux")]

\* validate_password_strength(password)
validate_password_strength(password) ==
    LET score == Point(Len(password) >= MIN_LENGTH)
                   + Point(re_search(Lowercase, password))
                   + Point(re_search(Uppercase, password))
                   + Point(re_search(Digits, password))
                   + Point(re_search(Specials, password))
                   + Point(Len(password) >= IDEAL_LENGTH)
    IN  [score |-> score,
         max_score |-> MAX_SCORE,
         strength |-> strength_levels[score],
         is_strong |-> score >= STRONG_SCORE,
         feedback |->
            Feedback(Len(password) >= MIN_LENGTH, "Le mot de passe doit contenir au moins 8 caracteres")
              \o Feedback(re_search(Lowercase, password), "Ajoutez des lettres minuscules")
              \o Feedback(re_search(Uppercase, password), "Ajoutez des lettres majuscules")
              \o Feedback(re_search(Digits, password), "Ajoutez des chiffres")
              \o Feedback(re_search(Specials, password), "Ajoutez des caracteres speciaux")]

ValidatePasswordStrength ==
    \E password \in PasswordInputs :
        /\ call.pc = "idle"
        /\ call' = [pc |-> "done", op |-> "validate_password_strength",
                    password |-> password,
                    result |-> validate_password_strength(password)]
        /\ UNCHANGED <<now, users, nextId, user_collection, tokCall, reg, guard, upd, stats, rate_limit_cache, rl>>

\* ===================================================== Field operations ==
\* documents of the users whose fields the operations below set
FieldDocs ==
    [email : {"a@x.com"}, username : {"alice"},
     hashed_password : {get_password_hash(p) : p \in Passwords},
     is_active : BOOLEAN]

\* user.is_active = True
activate_user(user) == [user EXCEPT !.is_active = TRUE]

\* deactivate_user setting the flag instead of clearing it
deactivate_user_wrong_flag(user) == [user EXCEPT !.is_active = TRUE]

\* user.is_active = False
deactivate_user(user) == [user EXCEPT !.is_active = FALSE]

\* user.hashed_password = new_hashed_password
update_password(user, new_hashed_password) ==
    [user EXCEPT !.hashed_password = new_hashed_password]

\* user.last_login = datetime.utcnow()
update_last_login(user, t) == [user EXCEPT !.last_login = <<t>>]

\* user = await self.get(user_id); if user: <set the field>, up to the save
Loaded(c, user, mutated) ==
    IF ~user.found THEN [pc |-> "done", result |-> [kind |-> "none"]] @@ c
    ELSE [pc |-> "save", user |-> mutated] @@ c

\* UserRepository.activate_user(user_id)
ActivateUser ==
    \E user_id \in 1..(MaxUsers + 1) :
        LET user == get(user_id, TRUE)
        IN  /\ call.pc = "idle"
            /\ call' = Loaded([op |-> "activate_user", user_id |-> user_id], user,
                              IF user.found THEN activate_user(user.user) ELSE <<>>)
            /\ UNCHANGED <<now, users, nextId, user_collection, tokCall, reg, guard, upd, stats, rate_limit_cache, rl>>

\* UserRepository.deactivate_user(user_id)
DeactivateUser ==
    \E user_id \in 1..(MaxUsers + 1) :
        LET user == get(user_id, TRUE)
        IN  /\ call.pc = "idle"
            /\ call' = Loaded([op |-> "deactivate_user", user_id |-> user_id], user,
                              IF user.found THEN deactivate_user(user.user) ELSE <<>>)
            /\ UNCHANGED <<now, users, nextId, user_collection, tokCall, reg, guard, upd, stats, rate_limit_cache, rl>>

\* UserRepository.update_password(user_id, new_hashed_password)
UpdatePassword ==
    \E user_id \in 1..(MaxUsers + 1),
       new_hashed_password \in {get_password_hash(p) : p \in LoginPasswords} :
        LET user == get(user_id, TRUE)
        IN  /\ call.pc = "idle"
            /\ call' = Loaded([op |-> "update_password", user_id |-> user_id,
                               new_hashed_password |-> new_hashed_password], user,
                              IF user.found
                              THEN update_password(user.user, new_hashed_password)
                              ELSE <<>>)
            /\ UNCHANGED <<now, users, nextId, user_collection, tokCall, reg, guard, upd, stats, rate_limit_cache, rl>>

\* UserRepository.update_last_login(user_id)
UpdateLastLogin ==
    \E user_id \in 1..(MaxUsers + 1) :
        LET user == get(user_id, TRUE)
        IN  /\ call.pc = "idle"
            /\ call' = Loaded([op |-> "update_last_login", user_id |-> user_id], user,
                              IF user.found THEN update_last_login(user.user, now)
                              ELSE <<>>)
            /\ UNCHANGED <<now, users, nextId, user_collection, tokCall, reg, guard, upd, stats, rate_limit_cache, rl>>

\* await user.save(); return user
UserSave ==
    /\ call.pc = "save"
    /\ users' = Save(users, call.user)
    /\ call' = [pc |-> "done", result |-> [kind |-> "user", user |-> call.user]]
                 @@ [k \in DOMAIN call \ {"pc", "user"} |-> call[k]]
    /\ UNCHANGED <<now, nextId, user_collection, tokCall, reg, guard, upd, stats, rate_limit_cache, rl>>

\* ============================================================= Deletion ==
\* obj.delete(): the document under the object's id leaves the collection
Delete(coll, obj) == [i \in DOMAIN coll \ {obj.id} |-> coll[i]]

\* BaseRepository.delete(id): obj = await self.get(id); if not obj: return None
RepoDeleteGet ==
    \E id \in 1..(MaxUsers + 1) :
        LET obj == get(id, TRUE)
        IN  /\ call.pc = "idle"
            /\ call' = IF ~obj.found
                        THEN [pc |-> "done", op |-> "delete", id |-> id,
                              result |-> [kind |-> "none"]]
                        ELSE [pc |-> "delete", op |-> "delete", id |-> id,
                              obj |-> obj.user]
            /\ UNCHANGED <<now, users, nextId, user_collection, tokCall, reg, guard, upd, stats, rate_limit_cache, rl>>

\* BaseRepository.delete(id): await obj.delete(); return obj
RepoDeleteDelete ==
    /\ call.pc = "delete"
    /\ users' = Delete(users, call.obj)
    /\ call' = [pc |-> "done", op |-> "delete", id |-> call.id,
                result |-> [kind |-> "user", user |-> call.obj]]
    /\ UNCHANGED <<now, nextId, user_collection, tokCall, reg, guard, upd, stats, rate_limit_cache, rl>>

\* ====================================================== Existence tests ==
\* user_id arguments: the id of a stored or of an unknown user, as the
\* signature declares it (str) or as an ObjectId
IdArgs == {Str(i) : i \in 1..(MaxUsers + 1)} \cup {ObjectId(i) : i \in 1..(MaxUsers + 1)}

\* User.find_one({"email": email, "_id": {"$ne": user_id}}) is not None
email_exists_exclude_user(email, user_id) ==
    \E i \in DOMAIN users : users[i].email = email /\ ObjectId(i) # user_id

\* UserRepository.email_exists_exclude_user(email, user_id)
EmailExistsExcludeUser ==
    \E email \in Emails, user_id \in IdArgs :
        /\ call.pc = "idle"
        /\ call' = [pc |-> "done", op |-> "email_exists_exclude_user",
                    email |-> email, user_id |-> user_id,
                    exists |-> email_exists_exclude_user(email, user_id)]
        /\ UNCHANGED <<now, users, nextId, user_collection, tokCall, reg, guard, upd, stats, rate_limit_cache, rl>>

\* ======================================================== Rate limiting ==
\* keys of the cache: current_user.id, or request.client.host
RateKeys == {"user1", "10.0.0.1"}

\* rate_limit_cache[key] of the defaultdict(list): reading a missing key
\* inserts the empty list
Touched(cache, key) == IF key \in DOMAIN cache THEN cache ELSE (key :> <<>>) @@ cache

\* [req_time for req_time in rate_limit_cache[key] if req_time > window_start]
Pruned(list, window_start) ==
    SelectSeq(list, LAMBDA req_time : req_time > window_start)

\* the limit test with > for >=
over_limit_strict(list) == Len(list) > max_requests

\* len(rate_limit_cache[key]) >= max_requests
over_limit(list) == Len(list) >= max_requests

\* rate_limit: key, now, window_start, and the list comprehension is evaluated
\* (before: the list as the check found it)
RateLimitPrune(th, key) ==
    LET window_start == now - window_minutes
        cache == Touched(rate_limit_cache, key)
    IN  /\ rl.th[th].pc = "idle"
        /\ Len(rl.admitted[key]) < MaxChecks
        /\ rate_limit_cache' = cache
        /\ rl' = [rl EXCEPT !.th[th] =
                    [pc |-> "assign", key |-> key, now |-> now,
                     before |-> cache[key],
                     pruned |-> Pruned(cache[key], window_start)]]
        /\ UNCHANGED <<now, users, nextId, user_collection, tokCall, reg, guard, upd, stats, call>>

\* rate_limit: rate_limit_cache[key] = [...]
RateLimitAssign(th) ==
    LET c == rl.th[th]
    IN  /\ c.pc = "assign"
        /\ rate_limit_cache' = (c.key :> c.pruned) @@ rate_limit_cache
        /\ rl' = [rl EXCEPT !.th[th] =
                     [pc |-> "test", key |-> c.key, now |-> c.now, before |-> c.before]]
        /\ UNCHANGED <<now, users, nextId, user_collection, tokCall, reg, guard, upd, stats, call>>

\* rate_limit: if len(rate_limit_cache[key]) >= max_requests: raise 429
RateLimitTest(th) ==
    LET c == rl.th[th]
        cache == Touched(rate_limit_cache, c.key)
    IN  /\ c.pc = "test"
        /\ rate_limit_cache' = cache
        /\ rl' = IF over_limit(cache[c.key])
                 THEN [rl EXCEPT !.th[th] =
                          [pc |-> "done", key |-> c.key, now |-> c.now,
                           before |-> c.before,
                           outcome |-> HTTPException(HTTP_429, "Trop de requetes")],
                       !.rejected[c.key] = <<c.now>>]
                 ELSE [rl EXCEPT !.th[th] = [c EXCEPT !.pc = "append"]]
        /\ UNCHANGED <<now, users, nextId, user_collection, tokCall, reg, guard, upd, stats, call>>

\* rate_limit: rate_limit_cache[key].append(now); return True
RateLimitAppend(th) ==
    LET c == rl.th[th]
        cache == Touched(rate_limit_cache, c.key)
    IN  /\ c.pc = "append"
        /\ rate_limit_cache' = [cache EXCEPT ![c.key] = Append(@, c.now)]
        /\ rl' = [rl EXCEPT !.th[th] =
                     [pc |-> "done", key |-> c.key, now |-> c.now,
                      before |-> c.before, outcome |-> [kind |-> "ok"]],
                  !.admitted[c.key] = Append(@, c.now)]
        /\ UNCHANGED <<now, users, nextId, user_collection, tokCall, reg, guard, upd, stats, call>>

\* the request goes on to its handler, or the 429 is sent
RateLimitReturn(th) ==
    /\ rl.th[th].pc = "done"
    /\ rl' = [rl EXCEPT !.th[th] = Idle]
    /\ UNCHANGED <<now, users, nextId, user_collection, tokCall, reg, guard, upd, stats, call, rate_limit_cache>>

\* ================================================================ Init ==
Init ==
    /\ now = 0
    /\ users = <<>>
    /\ nextId = 1
    /\ user_collection = <<>>
    /\ tokCall = NoCall
    /\ reg = [r \in 1..MaxReqs |-> Idle]
    /\ guard = Idle
    /\ upd = Idle
    /\ stats = Idle
    /\ call = Idle
    /\ rate_limit_cache = <<>>
    /\ rl = [th |-> [i \in 1..MaxReqs |-> Idle],
             admitted |-> [k \in RateKeys |-> <<>>],
             rejected |-> [k \in RateKeys |-> <<>>]]

NextToken ==
    \/ Tick
    \/ CreateAccessToken
    \/ CreateRefreshToken
    \/ DecodeToken
    \/ GetUserIdFromToken
    \/ ValidateTokenType

SpecToken == Init /\ [][NextToken]_vars

\* one registration request at a time, over both routes
NextReg ==
    \/ \E obj_in \in RegistrationDocs \cup UserCreateInputs : RepoCreate(obj_in)
    \/ EndpointCreateUserPrecheck(1)
    \/ EndpointCreateUserCreate(1)
    \/ RoutesCreateUserCheckUsername(1)
    \/ RoutesCreateUserCheckEmail(1)
    \/ RoutesCreateUserInsert(1)
    \/ Respond(1)

SpecReg == Init /\ [][NextReg]_vars

\* concurrent registration requests to /create/
NextRace ==
    \E r \in 1..MaxReqs :
        \/ RoutesCreateUserCheckUsername(r)
        \/ RoutesCreateUserCheckEmail(r)
        \/ RoutesCreateUserInsert(r)
        \/ Respond(r)

SpecRace == Init /\ [][NextRace]_vars

NextGuard ==
    \/ Tick
    \/ \E obj_in \in GuardDocs : RepoCreate(obj_in)
    \/ GuardToken
    \/ GuardUser
    \/ GuardAuthorize
    \/ GuardOptional
    \/ GuardReturn

SpecGuard == Init /\ [][NextGuard]_vars

NextUpdate ==
    \/ \E obj_in \in GuardDocs : RepoCreate(obj_in)
    \/ RepoUpdateGet
    \/ RepoUpdateSave
    \/ RepoUpdateReturn

SpecUpdate == Init /\ [][NextUpdate]_vars

NextStats ==
    \/ \E obj_in \in GuardDocs : RepoCreate(obj_in)
    \/ StatsTotal
    \/ StatsActive
    \/ StatsSuperusers
    \/ StatsReturn

SpecStats == Init /\ [][NextStats]_vars

NextBulk ==
    \/ \E obj_in \in GuardDocs : RepoCreate(obj_in)
    \/ BulkActivateUsers
    \/ BulkDeactivateUsers
    \/ CallReturn

SpecBulk == Init /\ [][NextBulk]_vars

NextAuth ==
    \/ \E obj_in \in AuthDocs : RepoCreate(obj_in)
    \/ AuthenticateUser
    \/ CallReturn

SpecAuth == Init /\ [][NextAuth]_vars

NextStrength ==
    \/ ValidatePasswordStrength
    \/ CallReturn

SpecStrength == Init /\ [][NextStrength]_vars

NextFieldOps ==
    \/ Tick
    \/ \E obj_in \in FieldDocs : RepoCreate(obj_in)
    \/ ActivateUser
    \/ DeactivateUser
    \/ UpdatePassword
    \/ UpdateLastLogin
    \/ UserSave
    \/ CallReturn

SpecFieldOps == Init /\ [][NextFieldOps]_vars

NextExists ==
    \/ \E obj_in \in RegistrationDocs : RepoCreate(obj_in)
    \/ EmailExistsExcludeUser
    \/ CallReturn

SpecExists == Init /\ [][NextExists]_vars

\* the checks of one limiter, one at a time
NextRate ==
    \/ Tick
    \/ \E key \in RateKeys : RateLimitPrune(1, key)
    \/ RateLimitAssign(1)
    \/ RateLimitTest(1)
    \/ RateLimitAppend(1)
    \/ RateLimitReturn(1)

SpecRate == Init /\ [][NextRate]_vars

\* the checks of one limiter for one key, on the threads of the pool
NextRateRace ==
    \/ Tick
    \/ \E th \in 1..MaxReqs :
        \/ RateLimitPrune(th, "user1")
        \/ RateLimitAssign(th)
        \/ RateLimitTest(th)
        \/ RateLimitAppend(th)
        \/ RateLimitReturn(th)

SpecRateRace == Init /\ [][NextRateRace]_vars

\* guard evaluations while users are deactivated and activated
NextRevoke ==
    \/ \E obj_in \in GuardDocs : RepoCreate(obj_in)
    \/ DeactivateUser
    \/ ActivateUser
    \/ UserSave
    \/ BulkDeactivateUsers
    \/ BulkActivateUsers
    \/ CallReturn
    \/ GuardToken
    \/ GuardUser
    \/ GuardAuthorize
    \/ GuardOptional
    \/ GuardReturn

SpecRevoke == Init /\ [][NextRevoke]_vars

\* BaseRepository.update and the field operations in progress together
NextLost ==
    \/ \E obj_in \in FieldDocs : RepoCreate(obj_in)
    \/ RepoUpdateGet
    \/ RepoUpdateSave
    \/ RepoUpdateReturn
    \/ ActivateUser
    \/ DeactivateUser
    \/ UpdatePassword
    \/ UpdateLastLogin
    \/ UserSave
    \/ CallReturn

SpecLost == Init /\ [][NextLost]_vars

\* get_user_stats while users are created, deleted, activated and deactivated
NextStatsRace ==
    \/ \E obj_in \in GuardDocs : RepoCreate(obj_in)
    \/ RepoDeleteGet
    \/ RepoDeleteDelete
    \/ ActivateUser
    \/ DeactivateUser
    \/ UserSave
    \/ CallReturn
    \/ StatsTotal
    \/ StatsActive
    \/ StatsSuperusers
    \/ StatsReturn

SpecStatsRace == Init /\ [][NextStatsRace]_vars

Next ==
    \/ NextToken
    \/ NextReg
    \/ NextRace
    \/ NextGuard
    \/ NextUpdate
    \/ NextStats
    \/ NextBulk
    \/ NextAuth
    \/ NextStrength
    \/ NextFieldOps
    \/ NextExists
    \/ NextRate
    \/ NextRateRace
    \/ NextRevoke
    \/ NextLost
    \/ NextStatsRace

Spec == Init /\ [][Next]_vars

\* ============================================================== Claims ==

\* C1: a token issued for subject S as an access token with a positive ttl
\* decodes to subject S at any time before issue-time + ttl, and decoding it
\* at any time after issue-time + ttl fails with InvalidToken (HTTP 401).
C1_IssuedAccessTokenRoundTrip ==
    (/\ tokCall.op = "create_access_token"
     /\ HasKey(tokCall.data, "sub")
     /\ tokCall.ttl > 0)
    => /\ tokCall.result.kind = "token"
       /\ now < tokCall.at + tokCall.ttl
            => get_user_id_from_token(tokCall.result.token, now)
                 = [kind |-> "ok", user_id |-> tokCall.data.sub]
       /\ now > tokCall.at + tokCall.ttl
            => /\ decode_token(tokCall.result.token, now).kind = "HTTPException"
               /\ decode_token(tokCall.result.token, now).status = HTTP_401

\* C2: validateType succeeds iff the token decodes and its type claim
\* ("access" when absent) equals the expected type; a token issued as a
\* refresh token fails validation as "access" and passes as "refresh", and
\* a token issued as an access token (no type claim) passes as "access" and
\* fails as "refresh".
C2_IssuedTokenTypeValidation ==
    /\ tokCall.op = "validate_token_type" =>
         (tokCall.result.kind = "ok") <=>
            /\ decode_token(tokCall.token, tokCall.at).kind = "ok"
            /\ (IF HasKey(tokCall.token.payload, "type")
                THEN tokCall.token.payload.type ELSE "access") = tokCall.expected
    /\ (tokCall.op = "create_refresh_token" /\ tokCall.ttl > 0) =>
         /\ tokCall.result.kind = "token"
         /\ validate_token_type(tokCall.result.token, "access", tokCall.at).kind
              = "HTTPException"
         /\ validate_token_type(tokCall.result.token, "refresh", tokCall.at).kind = "ok"
    /\ (tokCall.op = "create_access_token" /\ ~HasKey(tokCall.data, "type")
          /\ tokCall.ttl > 0) =>
         /\ tokCall.result.kind = "token"
         /\ validate_token_type(tokCall.result.token, "access", tokCall.at).kind = "ok"
         /\ validate_token_type(tokCall.result.token, "refresh", tokCall.at).kind
              = "HTTPException"

IsConflict(outcome) ==
    \/ /\ outcome.kind = "HTTPException"
       /\ outcome.status = HTTP_400
       /\ outcome.detail = "Email already registered"
    \/ /\ outcome.kind = "JSONResponse"
       /\ outcome.status = HTTP_400
       /\ outcome.message \in {"Email already exists", "Username already exists"}

C4_DuplicateEmailRejectedBeforeWrite ==
    \A r \in 1..MaxReqs :
        (reg[r].pc = "done" /\ reg[r].email_was_stored /\ reg[r].well_formed)
        => IsConflict(reg[r].outcome) /\ ~reg[r].wrote

C4_Witness ==
    /\ reg[1].pc = "done"
    /\ reg[1].variant = "endpoint"
    /\ reg[1].email_was_stored
    /\ IsConflict(reg[1].outcome)

\* the token verifies under the secret and is not expired at time t
Decodes(tok, t) ==
    /\ tok.key = "SECRET_KEY"
    /\ HasKey(tok.payload, "exp") => tok.payload.exp >= t

IsUnauthenticated(outcome) ==
    outcome.kind = "HTTPException" /\ outcome.status = HTTP_401

IsForbidden(outcome) ==
    outcome.kind = "HTTPException" /\ outcome.status = HTTP_403

\* the guard chain hands a user on: to the route handler, or to the
\* dependency that authorizes it
HandsUser(g) ==
    \/ g.pc = "authorize"
    \/ g.pc = "done" /\ g.outcome.kind = "user"

HandedUser(g) == IF g.pc = "authorize" THEN g.current_user ELSE g.outcome.user

\* C5: the mandatory guard hands a user record on only if the token decodes,
\* carries sub, the user with id sub is stored and is active when looked up,
\* and the record is that user's; a token that does not decode, a missing
\* sub, an unknown user and an inactive user each end in Unauthenticated.
C5_MandatoryGuard ==
    [][/\ (guard.pc = "idle" /\ guard'.pc # "idle" /\ guard'.variant \in MandatoryVariants)
            => LET tok == guard'.credentials.token
               IN  /\ ~HandsUser(guard')
                   /\ (~Decodes(tok, now) \/ ~HasKey(tok.payload, "sub"))
                        => guard'.pc = "done" /\ IsUnauthenticated(guard'.outcome)
       /\ (guard.pc = "user" /\ guard'.pc # "user")
            => LET tok == guard.credentials.token
                   sub == tok.payload.sub
               IN  /\ HandsUser(guard')
                        <=> /\ Decodes(tok, now)
                            /\ guard'.store_ok
                            /\ sub \in DOMAIN users
                            /\ users[sub].is_active
                   /\ HandsUser(guard')
                        => HandedUser(guard') = [id |-> sub] @@ users[sub]
                   /\ (\/ ~Decodes(tok, now)
                       \/ guard'.store_ok /\ sub \notin DOMAIN users
                       \/ guard'.store_ok /\ sub \in DOMAIN users /\ ~users[sub].is_active)
                        => guard'.pc = "done" /\ IsUnauthenticated(guard'.outcome)
      ]_vars

C5_Witness ==
    /\ guard.pc = "done"
    /\ guard.variant = "get_current_user"
    /\ guard.outcome.kind = "user"

\* C6: the optional guard never ends in an error: whatever goes wrong while
\* it resolves the identity, a failing user lookup included, it returns
\* None; it returns a user only when the mandatory guard returns that user.
C6_OptionalGuardNeverFails ==
    [][(guard.pc = "idle" /\ guard'.pc = "done"
          /\ guard'.variant = "get_current_user_optional")
        => /\ guard'.outcome.kind \in {"user", "none"}
           /\ guard'.outcome.kind = "user"
                => /\ guard'.credentials.present
                   /\ get_current_user_token(guard'.credentials.token, now).kind = "ok"
                   /\ get_current_user(guard'.credentials.token, now, guard'.store_ok)
                        = guard'.outcome
      ]_vars

PermissionSet(user) == IF "permissions" \in DOMAIN user THEN user.permissions ELSE {}

C8_PermissionGuard ==
    [][(guard.pc = "authorize" /\ guard'.pc = "done"
          /\ guard.variant = "require_permissions")
        => LET u == guard.current_user
               granted == \/ u.is_superuser
                          \/ guard.required = {}
                          \/ guard.required \subseteq PermissionSet(u)
           IN  /\ granted => guard'.outcome = [kind |-> "user", user |-> u]
               /\ ~granted => IsForbidden(guard'.outcome)
      ]_vars

C8_Witness ==
    /\ guard.pc = "done"
    /\ guard.variant = "require_permissions"
    /\ guard.required # {}
    /\ guard.outcome.kind = "user"

\* C9: update(id, partial) on an id that is not stored returns absent and
\* writes nothing; on a stored id it changes exactly the fields set in
\* partial, leaves the other fields of that record as they were, and leaves
\* every other record unchanged.
C9_UpdateFrame ==
    [][/\ (upd.pc = "idle" /\ upd'.pc # "idle")
            => /\ users' = users
               /\ upd'.id \notin DOMAIN users
                    => upd'.pc = "done" /\ upd'.result = [kind |-> "none"]
               /\ upd'.id \in DOMAIN users => upd'.pc = "save"
       /\ (upd.pc = "save" /\ upd'.pc = "done")
            => LET id == upd.id
                   partial == upd.obj_in
               IN  /\ DOMAIN users' = DOMAIN users
                   /\ \A i \in DOMAIN users \ {id} : users'[i] = users[i]
                   /\ \A f \in DOMAIN users[id] :
                        users'[id][f] = IF f \in DOMAIN partial THEN partial[f]
                                        ELSE users[id][f]
                   /\ upd'.result = [kind |-> "user", user |-> [id |-> id] @@ users'[id]]
      ]_vars

C9_Witness ==
    /\ upd.pc = "done"
    /\ upd.result.kind = "user"
    /\ ~("is_active" \in DOMAIN upd.obj_in)
    /\ ~upd.result.user.is_active
    /\ upd.result.user.email = "b@x.com"
    /\ Cardinality(DOMAIN users) = 2

\* C10: with no concurrent writer, get_user_stats returns the number of
\* records, the number of active records, their difference, the number of
\* superusers, and the rate active/total*100, which is 0 for the empty
\* collection.
C10_UserStats ==
    [][(stats.pc = "superusers" /\ stats'.pc = "done" /\ stats'.quiet)
        => LET total == Cardinality(DOMAIN users)
               active == Cardinality({i \in DOMAIN users : users[i].is_active})
               res == stats'.result
           IN  /\ res.total_users = total
               /\ res.active_users = active
               /\ res.inactive_users = total - active
               /\ res.superusers = Cardinality({i \in DOMAIN users : users[i].is_superuser})
               /\ total > 0 => /\ res.activation_rate.den = total
                               /\ res.activation_rate.num = active * 100
               /\ total = 0 => res.activation_rate.num = 0
      ]_vars

C10_Witness ==
    /\ stats.pc = "done"
    /\ stats.quiet
    /\ stats.result.total_users = 2
    /\ stats.result.active_users = 1
    /\ stats.result.superusers = 1

\* the stored users that a list of ids names
Named(user_ids) == {i \in DOMAIN users : \E x \in user_ids : x.hex = i}

\* C11: bulk_activate_users(ids) sets is_active on every stored user whose id
\* is in ids, changes no other field and no other user, and returns the number
\* of users in ids that were stored and inactive before the call;
\* bulk_deactivate_users is the mirror image.
C11_BulkActivation ==
    [][(/\ call.pc = "idle" /\ call'.pc = "done"
        /\ call'.op \in {"bulk_activate_users", "bulk_deactivate_users"})
        => LET flag == (call'.op = "bulk_activate_users")
               named == Named(call'.user_ids)
           IN  /\ DOMAIN users' = DOMAIN users
               /\ \A i \in named : users'[i] = [users[i] EXCEPT !.is_active = flag]
               /\ \A i \in DOMAIN users \ named : users'[i] = users[i]
               /\ call'.modified_count =
                    Cardinality({i \in named : users[i].is_active # flag})
      ]_vars

HoldsPlaintext(doc, password) ==
    \E f \in DOMAIN doc \cap {"email", "username", "full_name", "password"} :
        doc[f] = password

\* C13: a registration with all required fields, whose email and username no
\* stored record holds, succeeds and adds exactly one record; the record's
\* hashed_password verifies against the submitted password, and no field of
\* a stored record holds the submitted password.
C13_RegistrationStoresHash ==
    [][/\ (/\ reg[1].pc = "create" /\ reg'[1].pc = "done"
           /\ ~\E i \in DOMAIN users :
                 \/ users[i].email = reg[1].input.email
                 \/ users[i].username = reg[1].input.username)
            => /\ reg'[1].outcome.kind = "response"
               /\ DOMAIN users' = DOMAIN users \cup {nextId}
               /\ nextId \notin DOMAIN users
               /\ \A i \in DOMAIN users : users'[i] = users[i]
               /\ verify_password(reg[1].input.password,
                                  users'[nextId].hashed_password)
               /\ ~HoldsPlaintext(users'[nextId], reg[1].input.password)
       /\ (/\ reg[1].pc = "insert" /\ reg'[1].pc = "done"
           /\ ~\E i \in DOMAIN user_collection :
                 \/ user_collection[i].email = reg[1].input.email
                 \/ user_collection[i].username = reg[1].input.username)
            => /\ reg'[1].outcome.kind = "JSONResponse"
               /\ reg'[1].outcome.status = HTTP_201
               /\ Len(user_collection') = Len(user_collection) + 1
               /\ \A i \in DOMAIN user_collection :
                    user_collection'[i] = user_collection[i]
               /\ ~HoldsPlaintext(user_collection'[Len(user_collection')],
                                  reg[1].input.password)
               /\ HasKey(user_collection'[Len(user_collection')], "hashed_password")
      ]_vars

\* the six criteria of the score, in the order of the checks
Criterion(k, password) ==
    CASE k = 1 -> Len(password) >= 8
      [] k = 2 -> \E i \in DOMAIN password : password[i] \in Lowercase
      [] k = 3 -> \E i \in DOMAIN password : password[i] \in Uppercase
      [] k = 4 -> \E i \in DOMAIN password : password[i] \in Digits
      [] k = 5 -> \E i \in DOMAIN password : password[i] \in Specials
      [] k = 6 -> Len(password) >= 12

Advice(k) ==
    CASE k = 1 -> "Le mot de passe doit contenir au moins 8 caracteres"
      [] k = 2 -> "Ajoutez des lettres minuscules"
      [] k = 3 -> "Ajoutez des lettres majuscules"
      [] k = 4 -> "Ajoutez des chiffres"
      [] k = 5 -> "Ajoutez des caracteres speciaux"

\* C14: the score of validate_password_strength is the number of criteria met
\* among length >= 8, a lowercase letter, an uppercase letter, a digit, a
\* symbol and length >= 12, so 0 <= score <= 6; is_strong iff score >= 4;
\* feedback holds one entry for each unmet criterion among the first five and
\* none for the sixth; "abc" scores 1 and is not strong, "Abcdef12!@" scores 5
\* and is strong.
C14_PasswordStrength ==
    (call.pc = "done" /\ call.op = "validate_password_strength")
        => LET password == call.password
               res == call.result
               unmet == {k \in 1..5 : ~Criterion(k, password)}
           IN  /\ res.score = Cardinality({k \in 1..6 : Criterion(k, password)})
               /\ res.score \in 0..6
               /\ res.is_strong <=> res.score >= 4
               /\ Len(res.feedback) = Cardinality(unmet)
               /\ {res.feedback[i] : i \in DOMAIN res.feedback}
                    = {Advice(k) : k \in unmet}
               /\ password = <<"a", "b", "c">>
                    => res.score = 1 /\ ~res.is_strong
               /\ password = <<"A", "b", "c", "d", "e", "f", "1", "2", "!", "@">>
                    => res.score = 5 /\ res.is_strong

C14_Witness ==
    /\ call.pc = "done"
    /\ call.op = "validate_password_strength"
    /\ Len(call.password) >= 12
    /\ call.result.score = 5
    /\ Len(call.result.feedback) = 1

FieldOps == {"activate_user", "deactivate_user", "update_password", "update_last_login"}

\* the field that each operation sets
OwnField(op) ==
    CASE op \in {"activate_user", "deactivate_user"} -> "is_active"
      [] op = "update_password" -> "hashed_password"
      [] op = "update_last_login" -> "last_login"

\* C15: activate_user, deactivate_user, update_password and update_last_login
\* on an id that is not stored return None and leave the collection as it
\* was; on a stored id, with no other writer, they change only their own
\* field of that record (is_active, hashed_password, last_login), to the value
\* the operation stands for, and return the updated record.
C15_FieldOperations ==
    [][/\ (call.pc = "idle" /\ call'.pc # "idle" /\ call'.op \in FieldOps)
            => /\ users' = users
               /\ call'.user_id \notin DOMAIN users
                    => call'.pc = "done" /\ call'.result = [kind |-> "none"]
               /\ call'.user_id \in DOMAIN users => call'.pc = "save"
       /\ (call.pc = "save" /\ call'.pc = "done")
            => LET id == call.user_id
                   own == OwnField(call.op)
               IN  /\ DOMAIN users' = DOMAIN users
                   /\ \A i \in DOMAIN users \ {id} : users'[i] = users[i]
                   /\ \A f \in DOMAIN users[id] \ {own} : users'[id][f] = users[id][f]
                   /\ call.op = "activate_user" => users'[id].is_active
                   /\ call.op = "deactivate_user" => ~users'[id].is_active
                   /\ call.op = "update_password"
                        => users'[id].hashed_password = call.new_hashed_password
                   /\ call.op = "update_last_login"
                        => \E t \in 0..now : users'[id].last_login = <<t>>
                   /\ call'.result = [kind |-> "user", user |-> [id |-> id] @@ users'[id]]
      ]_vars

C15_Witness ==
    /\ call.pc = "done"
    /\ call.op = "deactivate_user"
    /\ call.result.kind = "user"
    /\ call.result.user.id = 2
    /\ call.result.user.last_login # <<>>
    /\ call.result.user.hashed_password = get_password_hash("password2")
    /\ users[2] = [k \in DOMAIN users[2] |-> call.result.user[k]]
    /\ users[1].is_active

\* C16: email_exists_exclude_user(email, id) is true iff a stored user other
\* than the user with that id holds the email; it is false when the only
\* record that holds the email is that user's own.
C16_EmailExistsExcludingUser ==
    [][(/\ call.pc = "idle" /\ call'.pc = "done"
        /\ call'.op = "email_exists_exclude_user")
        => /\ users' = users
           /\ call'.exists
                <=> \E i \in DOMAIN users :
                        i # call'.user_id.hex /\ users[i].email = call'.email
      ]_vars

\* the list that the cache holds for a key
ListOf(k) == IF k \in DOMAIN rate_limit_cache THEN rate_limit_cache[k] ELSE <<>>

\* the times of a list that are later than t - window
Recent(list, t) == SelectSeq(list, LAMBDA x : x > t - window_minutes)

IsTooManyRequests(outcome) ==
    outcome.kind = "HTTPException" /\ outcome.status = 429

\* the checks of key k admitted in the window that ends at time t
AdmittedIn(k, t) ==
    {j \in DOMAIN rl.admitted[k] :
        rl.admitted[k][j] > t - window_minutes /\ rl.admitted[k][j] <= t}

\* C17: with the checks of one limiter run one at a time, a check at time t
\* drops the key's timestamps that are not later than t - window, answers 429
\* iff at least max_requests remain, and otherwise records t; a key's list
\* never holds more than max_requests timestamps, no more than max_requests
\* checks of a key are admitted within a window, and a check never changes the
\* list of another key.
C17_RateLimit ==
    /\ [](\A k \in RateKeys : Len(ListOf(k)) <= max_requests)
    /\ [](\A k \in RateKeys : \A i \in DOMAIN rl.admitted[k] :
            Cardinality(AdmittedIn(k, rl.admitted[k][i])) <= max_requests)
    /\ [](rl.th[1].pc = "done"
            => LET c == rl.th[1]
                   remain == Recent(c.before, c.now)
               IN  /\ IsTooManyRequests(c.outcome) <=> Len(remain) >= max_requests
                   /\ IsTooManyRequests(c.outcome) => ListOf(c.key) = remain
                   /\ ~IsTooManyRequests(c.outcome)
                        => c.outcome.kind = "ok"
                           /\ ListOf(c.key) = Append(remain, c.now))
    /\ [][\A k \in RateKeys :
            (/\ rl.th[1].pc # "idle" => k # rl.th[1].key
             /\ rl'.th[1].pc # "idle" => k # rl'.th[1].key)
                => ListOf(k)' = ListOf(k)
         ]_vars

C17_Witness ==
    /\ rl.th[1].pc = "done"
    /\ rl.th[1].key = "user1"
    /\ IsTooManyRequests(rl.th[1].outcome)
    /\ Len(rl.admitted["user1"]) = 2 * max_requests - 1
    /\ Len(ListOf("user1")) = max_requests
    /\ ListOf("10.0.0.1") # <<>>

\* how many times the time v occurs in a list
Occurrences(list, v) == Cardinality({j \in DOMAIN list : list[j] = v})

\* C18: when checks for one key run concurrently, their prune, assign, test
\* and append steps interleaving on rate_limit_cache, no more than
\* max_requests checks of the key are admitted within a window, and the
\* timestamp of every admitted check stays in the key's list while it is
\* less than window old.
C18_ConcurrentChecks ==
    \A k \in RateKeys :
        /\ \A i \in DOMAIN rl.admitted[k] :
             Cardinality(AdmittedIn(k, rl.admitted[k][i])) <= max_requests
        /\ \A v \in Times :
             v > now - window_minutes
                => Occurrences(ListOf(k), v) >= Occurrences(rl.admitted[k], v)

\* the oldest timestamp of a non-empty list
Oldest(list) == CHOOSE v \in {list[j] : j \in DOMAIN list} :
                    \A j \in DOMAIN list : v <= list[j]

\* C19: a check answered 429 records nothing.  So a check made when the
\* oldest recorded timestamp of its key is at least window old, and that no
\* other check overtakes, is admitted, whatever number of checks of the key
\* were rejected before it: rejected traffic never extends the throttling.
C19_RejectedChecksRecordNothing ==
    [][\A th \in 1..MaxReqs :
        LET c == rl.th[th]
        IN  (c.pc = "test" /\ rl'.th[th].pc # "test")
            => /\ rl'.th[th].pc = "done"
                    => /\ ListOf(c.key)' = ListOf(c.key)
                       /\ rl'.admitted = rl.admitted
               /\ (/\ c.before # <<>>
                   /\ Oldest(c.before) <= c.now - window_minutes
                   /\ ListOf(c.key) = Recent(c.before, c.now))
                    => rl'.th[th].pc = "append"
      ]_vars

\* the call that completes in this step is a deactivation (flag FALSE) or an
\* activation (flag TRUE) of user u, alone or in bulk
Completes(flag, u) ==
    \/ /\ call.pc = "save" /\ call'.pc = "done"
       /\ call.op = (IF flag THEN "activate_user" ELSE "deactivate_user")
       /\ call.user_id = u
    \/ /\ call.pc = "idle" /\ call'.pc = "done"
       /\ call'.op = (IF flag THEN "bulk_activate_users" ELSE "bulk_deactivate_users")
       /\ \E x \in call'.user_ids : x.hex = u

\* C20: once deactivate_user(u), or a bulk deactivation that names u, has
\* completed, u is inactive and stays so until an activation of u completes;
\* and a guard evaluation whose lookup finds u inactive ends in
\* Unauthenticated (mandatory, privileged and permission guards) or resolves
\* to no identity (optional guard), whatever valid token of u it is given.
C20_DeactivationRevokesAccess ==
    [][/\ \A u \in DOMAIN users :
            /\ Completes(FALSE, u) => ~users'[u].is_active
            /\ (~users[u].is_active /\ users'[u].is_active) => Completes(TRUE, u)
       /\ (/\ guard.pc = "user" /\ guard'.pc # "user"
           /\ guard'.store_ok
           /\ guard.credentials.token.payload.sub \in DOMAIN users
           /\ ~users[guard.credentials.token.payload.sub].is_active)
            => guard'.pc = "done" /\ IsUnauthenticated(guard'.outcome)
       /\ (/\ guard.pc = "idle" /\ guard'.pc = "done"
           /\ guard'.variant = "get_current_user_optional"
           /\ guard'.credentials.present
           /\ guard'.store_ok
           /\ HasKey(guard'.credentials.token.payload, "sub")
           /\ guard'.credentials.token.payload.sub \in DOMAIN users
           /\ ~users[guard'.credentials.token.payload.sub].is_active)
            => guard'.outcome.kind = "none"
      ]_vars

\* C21: when load-mutate-save operations on one user interleave
\* (BaseRepository.update and a field operation of UserRepository, each
\* loading the record before the other saves), both effects survive: the save
\* of an operation changes only the fields that operation set and leaves
\* every other field of the stored record as it is at that moment, so it
\* never writes back the value a field had before the other operation
\* changed it.
C21_NoStaleWriteBack ==
    [][/\ (upd.pc = "save" /\ upd'.pc = "done")
            => \A f \in DOMAIN users[upd.id] \ DOMAIN upd.obj_in :
                    users'[upd.id][f] = users[upd.id][f]
       /\ (call.pc = "save" /\ call'.pc = "done" /\ call.op \in FieldOps)
            => \A f \in DOMAIN users[call.user_id] \ {OwnField(call.op)} :
                    users'[call.user_id][f] = users[call.user_id][f]
      ]_vars

\* C22: every result of get_user_stats has inactive_users >= 0,
\* active_users <= total_users and 0 <= activation_rate <= 100, also when
\* users are created, deleted, activated or deactivated between its three
\* store reads.
C22_StatsBounds ==
    stats.pc = "done"
        => LET res == stats.result
           IN  /\ res.inactive_users >= 0
               /\ res.active_users <= res.total_users
               /\ 0 <= res.activation_rate.num
               /\ res.activation_rate.num <= 100 * res.activation_rate.den

\* the token with its type claim replaced by ty (a type, or no type claim)
Retyped(tok, ty) ==
    [key |-> tok.key,
     payload |-> ty @@ [k \in DOMAIN tok.payload \ {"type"} |-> tok.payload[k]]]

\* what the second dependency of the mandatory guard ended in
UserOutcome(g) ==
    IF HandsUser(g) THEN [kind |-> "user", user |-> HandedUser(g)] ELSE g.outcome

\* C23: the mandatory guard does not look at the type claim of the token.
\* Both of its dependencies end for a token as they end for the same token
\* with any other type claim (access, refresh or none) at the same moment;
\* in particular a refresh token that decodes and whose sub is a stored
\* active user u is accepted, as the access token for u is, and the guard
\* hands on u's record.
C23_TokenTypeIgnored ==
    [][/\ (guard.pc = "idle" /\ guard'.pc # "idle"
           /\ guard'.variant \in MandatoryVariants)
            => LET tok == guard'.credentials.token
               IN  /\ \A ty \in TypeClaims :
                        (guard'.pc = "user")
                            <=> get_current_user_token(Retyped(tok, ty), now).kind = "ok"
                   /\ (Decodes(tok, now) /\ HasKey(tok.payload, "sub"))
                        => guard'.pc = "user"
       /\ (guard.pc = "user" /\ guard'.pc # "user" /\ guard'.store_ok)
            => LET tok == guard.credentials.token
                   u == tok.payload.sub
               IN  /\ \A ty \in TypeClaims :
                        UserOutcome(guard')
                            = get_current_user(Retyped(tok, ty), now, TRUE)
                   /\ (Decodes(tok, now) /\ u \in DOMAIN users /\ users[u].is_active)
                        => /\ HandsUser(guard')
                           /\ HandedUser(guard') = [id |-> u] @@ users[u]
      ]_vars

C23_Witness ==
    /\ guard.pc = "done"
    /\ guard.variant = "get_current_user"
    /\ HasKey(guard.credentials.token.payload, "type")
    /\ guard.credentials.token.payload.type = "refresh"
    /\ guard.outcome.kind = "user"
    /\ guard.outcome.user.id = guard.credentials.token.payload.sub
    /\ guard.outcome.user.is_active

====
